---- MODULE Spec2Model ----
(***************************************************************************)
(* FarCaster (src/src/lib.rs): the FCPayload envelope, its bincode wire    *)
(* form, the AES-256-GCM payload transform and the CannonLauncher          *)
(* transport over a TCP stream.                                            *)
(*                                                                         *)
(* Spec       : one client CannonLauncher sending to one server            *)
(*              CannonLauncher over a byte stream that delivers in pieces. *)
(* SpecLarge  : the same transport, sending envelopes whose fields are at  *)
(*              and over 65535 bytes.                                      *)
(* SpecCipher : the envelope operations of FCPayload applied to bounded    *)
(*              inputs.                                                    *)
(* SpecListener : src/src/bin/server.rs and client.rs, the accept loop,    *)
(*              one worker thread per connection, one client process per   *)
(*              connection.  SpecListenerFair adds the scheduling of the   *)
(*              main thread.                                               *)
(***************************************************************************)
EXTENDS Integers, Sequences, FiniteSets, TLC

VARIABLES
    payload,      \* client CannonLauncher.payload : Option<FCPayload>
    wire,         \* bytes written to the client's TcpStream, still in flight
    sock,         \* bytes arrived at the server's socket, not yet read
    stream,       \* "open" | "eof" (peer closed) | "reset" (connection error)
    reader,       \* server CannonLauncher.reader : contents of the BufReader
    sent,         \* history: the Option<FCPayload> of every send, in order
    sendRet,      \* result of the last send : "none" | "Ok" | "Err"
    ret,          \* result of the last read_message
    received,     \* history: the envelope of every Ok read_message, in order
    observed,     \* history: the buffer seen by every read_message, in order
    wbuf,         \* bytes written by send and held in user space, unflushed
    fc,           \* SpecCipher: the FCPayload under construction
    plain,        \* SpecCipher: Option, the payload before encrypt_payload
    key,          \* SpecCipher: key argument of the last cipher call
    nonce,        \* SpecCipher: nonce argument of the last cipher call
    debug,        \* SpecCipher: cfg!(debug_assertions) of the build
    cop,          \* SpecCipher: the last operation applied to fc
    cret,         \* SpecCipher: its outcome
    mainpc,       \* SpecListener: server main, "accept_loop" | "exited"
    conn,         \* SpecListener: per connection, its place at the listener
    inbox,        \* SpecListener: per connection, bytes arrived at the server
    peerEnd,      \* SpecListener: per connection, "open" | "eof" | "reset"
    wk,           \* SpecListener: per connection, the worker thread
    cl            \* SpecListener: per connection, the client process

vars == <<payload, wire, sock, stream, reader, sent, sendRet, ret, received,
          observed, wbuf, fc, plain, key, nonce, debug, cop, cret,
          mainpc, conn, inbox, peerEnd, wk, cl>>

transportVars == <<payload, wire, sock, stream, reader, sent, sendRet, ret,
                   received, observed, wbuf>>
cipherVars == <<fc, plain, key, nonce, debug, cop, cret>>
listenerVars == <<mainpc, conn, inbox, peerEnd, wk, cl>>

(***************************************************************************)
(* Bounds of the model.                                                    *)
(***************************************************************************)
MaxSends == 2        \* calls of send explored
MaxReads == 2        \* calls of read_message explored
MaxPartial == 2      \* the network delivers 1..MaxPartial bytes, or all
NumConns == 2        \* connections made to the listener

(***************************************************************************)
(* Constants of the program and of the libraries it calls.                 *)
(***************************************************************************)
KeyBytes == 256          \* key: &[u8; 256]
NonceBytes == 96         \* nonce: &[u8; 96]
Aes256KeySize == 32      \* AesGcm<Aes256, _>::new_from_slice wants 32 bytes
U12 == 12                \* AesGcm<_, U12> : Nonce is 12 bytes
TagSize == 16            \* AES-GCM appends a 16 byte tag
BufCapacity == 8192      \* io::BufReader::new : 8 KiB buffer

\* The largest field the 2-byte length of the documented frame could carry.
FieldLimit == 256 * 256 - 1

Min(a, b) == IF a < b THEN a ELSE b

Rep(n, b) == [i \in 1..n |-> b]

(***************************************************************************)
(* Option<T> is a sequence of length 0 (None) or 1 (Some).                 *)
(***************************************************************************)
None == <<>>
Some(x) == <<x>>

FCPayload(d, p, m) == [descriptor |-> d, payload |-> p, metadata |-> m]

(***************************************************************************)
(* bincode 1.x, default options: fixed-width little-endian integers, a     *)
(* u64 length before every Vec, one tag byte before an Option, trailing    *)
(* input ignored by bincode::deserialize.                                  *)
(***************************************************************************)
\* As U64LE, the length written in the 2 bytes of a u16.
U64LETwoBytes(n) ==
    <<n % 256, (n \div 256) % 256>>

\* u64 in bincode's fixint encoding
U64LE(n) ==
    <<n % 256, (n \div 256) % 256, (n \div 65536) % 256,
      (n \div 16777216) % 256, 0, 0, 0, 0>>

\* Lengths of 2^24 and more cannot be met by any buffer of the model; they
\* are all read as this one value.
Saturated == 256 * 256 * 256

ReadU64LE(s) ==
    IF \E i \in 4..8 : s[i] # 0
    THEN Saturated
    ELSE s[1] + 256 * s[2] + 65536 * s[3]

U64BE(n) ==
    <<0, 0, 0, 0, (n \div 16777216) % 256, (n \div 65536) % 256,
      (n \div 256) % 256, n % 256>>

\* As SerializeFCPayload, with big-endian integers.
SerializeFCPayloadBE(e) ==
    <<e.descriptor>> \o U64BE(Len(e.payload)) \o e.payload
                     \o U64BE(Len(e.metadata)) \o e.metadata

\* #[derive(Serialize)] struct FCPayload, through bincode::serialize
SerializeFCPayload(e) ==
    <<e.descriptor>> \o U64LE(Len(e.payload)) \o e.payload
                     \o U64LE(Len(e.metadata)) \o e.metadata

\* As SerializeOption, nothing written for None.
SerializeOptionSkipNone(o) ==
    IF o = None THEN <<>> ELSE <<1>> \o SerializeFCPayload(o[1])

\* bincode::serialize(&Option<FCPayload>) : tag 0, or tag 1 and the value
SerializeOption(o) ==
    IF o = None THEN <<0>> ELSE <<1>> \o SerializeFCPayload(o[1])

\* Result<T, E> : [kind |-> "Ok" | "Err" | "panic" | "none", val |-> Option]
Ok(x) == [kind |-> "Ok", val |-> Some(x)]
Err == [kind |-> "Err", val |-> None]
Panic == [kind |-> "panic", val |-> None]
NoRet == [kind |-> "none", val |-> None]

\* bincode::deserialize::<FCPayload>(buf)
DeserializeFCPayload(buf) ==
    IF Len(buf) < 9 THEN Err
    ELSE LET plen == ReadU64LE(SubSeq(buf, 2, 9)) IN
         IF Len(buf) < 17 + plen THEN Err
         ELSE LET mlen == ReadU64LE(SubSeq(buf, 10 + plen, 17 + plen)) IN
              IF Len(buf) < 17 + plen + mlen THEN Err
              ELSE Ok(FCPayload(buf[1],
                                SubSeq(buf, 10, 9 + plen),
                                SubSeq(buf, 18 + plen, 17 + plen + mlen)))

(***************************************************************************)
(* Inputs.  insert_raw_payload / insert_metadata store bincode::serialize  *)
(* of the caller's value; for a value made of u8 fields that is the bytes  *)
(* themselves, so the inputs are given as the stored bytes.                *)
(***************************************************************************)
Descriptors == {0, 1}
SmallPayloads == {<<>>, <<7>>}
SmallMetadata == {<<>>, <<0>>}

Envelopes ==
    {FCPayload(d, p, m) : d \in Descriptors, p \in SmallPayloads,
                          m \in SmallMetadata}

\* Envelopes with a field at and just over the limit of a 2-byte length.
LargeEnvelopes ==
    {FCPayload(0, Rep(n, 0), <<>>) : n \in {FieldLimit, FieldLimit + 1}}
    \cup {FCPayload(1, <<>>, Rep(FieldLimit + 1, 0))}

\* The large envelopes, and a one-byte payload to compare them with.
BoundaryEnvelopes == {FCPayload(0, <<7>>, <<>>)} \cup LargeEnvelopes

(***************************************************************************)
(* CannonLauncher, client side.                                            *)
(***************************************************************************)
\* with_stream / connect : payload: None, empty BufReader
InitTransport ==
    /\ payload = None
    /\ wire = <<>>
    /\ sock = <<>>
    /\ stream = "open"
    /\ reader = <<>>
    /\ sent = <<>>
    /\ sendRet = "none"
    /\ ret = NoRet
    /\ received = <<>>
    /\ observed = <<>>
    /\ wbuf = <<>>

set_payload(e) ==
    /\ stream # "eof"
    /\ Len(sent) < MaxSends
    /\ payload' = Some(e)
    /\ UNCHANGED <<wire, sock, stream, reader, sent, sendRet, ret, received,
                   observed>>
    /\ UNCHANGED <<wbuf, cipherVars, listenerVars>>

clear_payload ==
    /\ stream # "eof"
    /\ Len(sent) < MaxSends
    /\ payload # None
    /\ payload' = None
    /\ UNCHANGED <<wire, sock, stream, reader, sent, sendRet, ret, received,
                   observed>>
    /\ UNCHANGED <<wbuf, cipherVars, listenerVars>>

\* As WriteAll, through a buffering writer: the bytes stay in user space
\* until a flush of that writer.
WriteAllBuffered(st, bytes) == [wire |-> st.wire, wbuf |-> st.wbuf \o bytes]

\* TcpStream::write_all : a TcpStream has no user-space buffer, every byte
\* is handed to the connection.
WriteAll(st, bytes) == [wire |-> st.wire \o bytes, wbuf |-> st.wbuf]

\* TcpStream::flush : does nothing.
Flush(st) == st

\* As PayloadAfterSend, the envelope taken out of the transport.
PayloadTakenBySend(p) == None

\* send borrows self.payload to serialize it and leaves it where it is.
PayloadAfterSend(p) == p

\* send : bincode::serialize(&self.payload), write_all, flush.
send ==
    /\ stream # "eof"
    /\ Len(sent) < MaxSends
    /\ LET bdata == SerializeOption(payload) IN
       IF stream = "open"
       THEN LET st == Flush(WriteAll([wire |-> wire, wbuf |-> wbuf], bdata))
            IN  /\ wire' = st.wire
                /\ wbuf' = st.wbuf
                /\ sent' = Append(sent, payload)
                /\ sendRet' = "Ok"
       ELSE /\ sendRet' = "Err"
            /\ UNCHANGED <<wire, wbuf, sent>>
    /\ payload' = PayloadAfterSend(payload)
    /\ UNCHANGED <<sock, stream, reader, ret, received, observed>>
    /\ UNCHANGED <<cipherVars, listenerVars>>

\* The client process dies inside write_all after k bytes of the frame have
\* been written; its socket is closed by the system.
send_killed(k) ==
    /\ stream = "open"
    /\ Len(sent) < MaxSends
    /\ LET bdata == SerializeOption(payload) IN
       /\ 0 < k
       /\ k < Len(bdata)
       /\ wire' = wire \o SubSeq(bdata, 1, k)
    /\ stream' = "eof"
    /\ UNCHANGED <<payload, sock, reader, sent, sendRet, ret, received,
                   observed>>
    /\ UNCHANGED <<wbuf, cipherVars, listenerVars>>

\* The client drops its CannonLauncher: the stream is shut down in order.
close ==
    /\ stream = "open"
    /\ stream' = "eof"
    /\ UNCHANGED <<payload, wire, sock, reader, sent, sendRet, ret, received,
                   observed>>
    /\ UNCHANGED <<wbuf, cipherVars, listenerVars>>

(***************************************************************************)
(* The connection.                                                         *)
(***************************************************************************)
\* The pieces in which the connection hands bytes over: everything in flight,
\* or, while the server has read nothing yet, a first few bytes only.
DeliverSizes ==
    (IF wire # <<>> THEN {Len(wire)} ELSE {})
    \cup (IF reader = <<>>
          THEN 1..Min(Len(wire), MaxPartial - Len(sock))
          ELSE {})

deliver(k) ==
    /\ stream # "reset"
    /\ k \in 1..Len(wire)
    /\ sock' = sock \o SubSeq(wire, 1, k)
    /\ wire' = SubSeq(wire, k + 1, Len(wire))
    /\ UNCHANGED <<payload, stream, reader, sent, sendRet, ret, received,
                   observed>>
    /\ UNCHANGED <<wbuf, cipherVars, listenerVars>>

\* The connection is reset: what was in flight or unread is gone and the
\* next read or write on the socket fails.
reset ==
    /\ stream = "open"
    /\ stream' = "reset"
    /\ wire' = <<>>
    /\ sock' = <<>>
    /\ UNCHANGED <<payload, reader, sent, sendRet, ret, received, observed>>
    /\ UNCHANGED <<wbuf, cipherVars, listenerVars>>

(***************************************************************************)
(* CannonLauncher, server side.                                            *)
(***************************************************************************)
\* BufReader::fill_buf : when the buffer is empty, one read of the socket
\* (blocking until bytes or end of stream); otherwise the buffer as it is.
\* Nothing calls consume, so a non-empty buffer is returned again.
FillBlocked ==
    /\ reader = <<>>
    /\ sock = <<>>
    /\ ~ (stream = "reset")
    /\ ~ (stream = "eof" /\ wire = <<>>)

\* As FillFails, the stream's error reported whatever the buffer holds.
FillFailsOnReset == stream = "reset"

FillFails == reader = <<>> /\ sock = <<>> /\ stream = "reset"

\* As FillBuf, the socket read again and appended on every call.
FillBufAppending ==
    reader \o SubSeq(sock, 1, Min(Len(sock), BufCapacity - Len(reader)))

FillBuf ==
    IF reader # <<>> THEN reader
    ELSE SubSeq(sock, 1, Min(Len(sock), BufCapacity))

\* read_message : fill_buf()?, bincode::deserialize(..).unwrap()
read_message ==
    /\ ret.kind # "panic"
    /\ Len(observed) < MaxReads
    /\ ~ FillBlocked
    /\ IF FillFails
       THEN /\ ret' = Err
            /\ UNCHANGED <<reader, sock, received, observed>>
       ELSE LET outbuffer == FillBuf
                decoded == DeserializeFCPayload(outbuffer)
            IN  /\ reader' = outbuffer
                /\ sock' = IF reader # <<>> THEN sock
                           ELSE SubSeq(sock, Len(outbuffer) + 1, Len(sock))
                /\ observed' = Append(observed, outbuffer)
                /\ IF decoded.kind = "Ok"
                   THEN /\ ret' = decoded
                        /\ received' = Append(received, decoded.val[1])
                   ELSE /\ ret' = Panic
                        /\ UNCHANGED received
    /\ UNCHANGED <<payload, wire, stream, sent, sendRet>>
    /\ UNCHANGED <<wbuf, cipherVars, listenerVars>>

Conns == 1..NumConns

\* No connection made yet; the server has bound its address and is in its
\* accept loop.
InitListener ==
    /\ mainpc = "accept_loop"
    /\ conn = [c \in Conns |-> "none"]
    /\ inbox = [c \in Conns |-> <<>>]
    /\ peerEnd = [c \in Conns |-> "open"]
    /\ wk = [c \in Conns |-> "none"]
    /\ cl = [c \in Conns |-> "start"]

InitCipherIdle ==
    /\ fc = FCPayload(0, <<>>, <<>>)
    /\ plain = None
    /\ key = <<>>
    /\ nonce = <<>>
    /\ debug = FALSE
    /\ cop = "none"
    /\ cret = NoRet

Init == InitTransport /\ InitCipherIdle /\ InitListener

Next ==
    \/ \E e \in Envelopes : set_payload(e)
    \/ clear_payload
    \/ send
    \/ \E k \in 1..MaxPartial : send_killed(k)
    \/ close
    \/ \E k \in DeliverSizes : deliver(k)
    \/ reset
    \/ read_message

Spec == Init /\ [][Next]_vars

(***************************************************************************)
(* SpecLarge : the same transport after set_payload of a large envelope,   *)
(*             or of a one-byte payload.                                   *)
(***************************************************************************)
InitLarge ==
    /\ \E e \in BoundaryEnvelopes : payload = Some(e)
    /\ wire = <<>>
    /\ sock = <<>>
    /\ stream = "open"
    /\ reader = <<>>
    /\ sent = <<>>
    /\ sendRet = "none"
    /\ ret = NoRet
    /\ received = <<>>
    /\ observed = <<>>
    /\ wbuf = <<>>
    /\ InitCipherIdle
    /\ InitListener

NextLarge ==
    \/ send
    \/ \E k \in 1..MaxPartial : send_killed(k)
    \/ close
    \/ \E k \in DeliverSizes : deliver(k)
    \/ reset
    \/ read_message

SpecLarge == InitLarge /\ [][NextLarge]_vars

(***************************************************************************)
(* AES-256-GCM as the aes_gcm crate offers it.  The cipher itself is       *)
(* abstracted to a byte-wise keystream and a 16 byte tag over key, nonce   *)
(* and ciphertext; key and nonce sizes are those of AesGcm<Aes256, U12>.   *)
(***************************************************************************)
RECURSIVE SumSeq(_)
SumSeq(s) == IF s = <<>> THEN 0 ELSE s[1] + SumSeq(Tail(s))

\* KeyInit::new_from_slice : Err(InvalidLength) unless the key is 32 bytes
NewFromSlice(k) == Len(k) = Aes256KeySize

\* Nonce::from_slice : panics unless the slice is 12 bytes
NonceFromSlice(n) == Len(n) = U12

Keystream(k, n) == (k[1] + n[1]) % 256

Tag(k, n, body) == Rep(TagSize, (k[1] + 2 * n[1] + SumSeq(body) + 1) % 256)

\* Aead::encrypt : ciphertext followed by the tag
AeadEncrypt(k, n, pt) ==
    LET body == [i \in 1..Len(pt) |-> (pt[i] + Keystream(k, n)) % 256]
    IN  body \o Tag(k, n, body)

\* Aead::decrypt : Err unless the tag verifies
AeadDecrypt(k, n, ct) ==
    IF Len(ct) < TagSize THEN Err
    ELSE LET body == SubSeq(ct, 1, Len(ct) - TagSize)
             tag == SubSeq(ct, Len(ct) - TagSize + 1, Len(ct))
         IN  IF tag # Tag(k, n, body) THEN Err
             ELSE Ok([i \in 1..Len(body) |->
                         (body[i] + 256 - Keystream(k, n)) % 256])

(***************************************************************************)
(* FCPayload operations, as functions of the envelope and the arguments.   *)
(* Each yields the envelope afterwards and the outcome of the call.        *)
(***************************************************************************)
Unit == <<>>

\* As EncryptPayload, the ciphertext stored in the wrong field before the
\* key material is looked at.
EncryptPayloadIntoMetadata(e, k, n, dbg) ==
    [fc |-> [e EXCEPT !.metadata = AeadEncrypt(k, n, e.payload)],
     ret |-> IF NewFromSlice(k) /\ NonceFromSlice(n) THEN Ok(Unit)
             ELSE Panic]

\* encrypt_payload(&mut self, key, nonce)
EncryptPayload(e, k, n, dbg) ==
    IF ~ NewFromSlice(k) THEN [fc |-> e, ret |-> Panic]
    ELSE IF ~ NonceFromSlice(n) THEN [fc |-> e, ret |-> Panic]
    ELSE LET encrypted_load == AeadEncrypt(k, n, e.payload)
             e2 == [e EXCEPT !.payload = encrypted_load]
         IN  IF dbg
             THEN LET test_decode == AeadDecrypt(k, n, e2.payload) IN
                  IF test_decode.kind # "Ok" THEN [fc |-> e2, ret |-> Panic]
                  ELSE IF test_decode.val[1] # e2.payload
                       THEN [fc |-> e2, ret |-> Panic]
                       ELSE [fc |-> e2, ret |-> Ok(Unit)]
             ELSE [fc |-> e2, ret |-> Ok(Unit)]

\* decode_encrypted_payload(&self, key, nonce) -> P, for a P made of u8
\* fields, whose bincode form is its bytes
DecodeEncryptedPayload(e, k, n) ==
    IF ~ NewFromSlice(k) THEN [fc |-> e, ret |-> Panic]
    ELSE IF ~ NonceFromSlice(n) THEN [fc |-> e, ret |-> Panic]
    ELSE LET decoded == AeadDecrypt(k, n, e.payload) IN
         IF decoded.kind # "Ok" THEN [fc |-> e, ret |-> Panic]
         ELSE [fc |-> e, ret |-> decoded]

\* The arguments the signatures admit: key: &[u8; 256], nonce: &[u8; 96]
Keys == {Rep(KeyBytes, 1), Rep(KeyBytes, 2)}
Nonces == {Rep(NonceBytes, 0), Rep(NonceBytes, 3)}

Alive == cret.kind # "panic"

override_descriptor(byte) ==
    /\ Alive
    /\ fc' = [fc EXCEPT !.descriptor = byte]
    /\ cop' = "override_descriptor"
    /\ cret' = Ok(Unit)
    /\ UNCHANGED <<plain, key, nonce, debug>>
    /\ UNCHANGED <<transportVars, listenerVars>>

insert_raw_payload(p) ==
    /\ Alive
    /\ fc' = [fc EXCEPT !.payload = p]
    /\ plain' = None
    /\ cop' = "insert_raw_payload"
    /\ cret' = Ok(Unit)
    /\ UNCHANGED <<key, nonce, debug>>
    /\ UNCHANGED <<transportVars, listenerVars>>

insert_metadata(m) ==
    /\ Alive
    /\ fc' = [fc EXCEPT !.metadata = m]
    /\ cop' = "insert_metadata"
    /\ cret' = Ok(Unit)
    /\ UNCHANGED <<plain, key, nonce, debug>>
    /\ UNCHANGED <<transportVars, listenerVars>>

encrypt_payload(k, n) ==
    /\ Alive
    /\ LET r == EncryptPayload(fc, k, n, debug) IN
       /\ fc' = r.fc
       /\ cret' = r.ret
       /\ plain' = IF r.fc = fc THEN plain ELSE Some(fc.payload)
    /\ key' = k
    /\ nonce' = n
    /\ cop' = "encrypt_payload"
    /\ UNCHANGED debug
    /\ UNCHANGED <<transportVars, listenerVars>>

decode_encrypted_payload(k, n) ==
    /\ Alive
    /\ LET r == DecodeEncryptedPayload(fc, k, n) IN
       /\ fc' = r.fc
       /\ cret' = r.ret
    /\ key' = k
    /\ nonce' = n
    /\ cop' = "decode_encrypted_payload"
    /\ UNCHANGED <<plain, debug>>
    /\ UNCHANGED <<transportVars, listenerVars>>

InitCipher ==
    /\ InitTransport
    /\ InitListener
    /\ fc \in Envelopes
    /\ plain = None
    /\ key = <<>>
    /\ nonce = <<>>
    /\ debug \in BOOLEAN
    /\ cop = "none"
    /\ cret = NoRet

NextCipher ==
    \/ \E b \in Descriptors : override_descriptor(b)
    \/ \E p \in SmallPayloads : insert_raw_payload(p)
    \/ \E m \in SmallMetadata : insert_metadata(m)
    \/ \E k \in Keys, n \in Nonces : encrypt_payload(k, n)
    \/ \E k \in Keys, n \in Nonces : decode_encrypted_payload(k, n)

SpecCipher == InitCipher /\ [][NextCipher]_vars

(***************************************************************************)
(* Properties.                                                             *)
(***************************************************************************)
Last(s) == s[Len(s)]

IsPrefix(a, b) == Len(a) <= Len(b) /\ a = SubSeq(b, 1, Len(a))

\* The envelopes the peer has sent, in send order.
SentEnvelopes ==
    LET somes == SelectSeq(sent, LAMBDA o : o # None)
    IN  [i \in 1..Len(somes) |-> somes[i][1]]

\* C1: an envelope written by send and read back whole by read_message is
\* returned equal in descriptor, payload and metadata.
C1_RoundTrip ==
    (/\ sent # <<>>
     /\ sent[1] # None
     /\ observed # <<>>
     /\ Last(observed) = SerializeOption(sent[1]))
    => ret = Ok(sent[1][1])

\* The frame as documented: 2-byte big-endian lengths, nothing else.
U16BE(n) == <<(n \div 256) % 256, n % 256>>

DocumentedFrame(e) ==
    <<e.descriptor>> \o U16BE(Len(e.payload)) \o e.payload
                     \o U16BE(Len(e.metadata)) \o e.metadata

SendsEnvelope == send /\ stream = "open" /\ payload # None

\* C2 as stated: send writes descriptor, 2-byte big-endian payload length,
\* payload, 2-byte big-endian metadata length, metadata: 5 + P + M bytes.
C2_DocumentedFrame ==
    [][SendsEnvelope => wire' = wire \o DocumentedFrame(payload[1])]_vars

\* Byte j (0 = least significant) of a length below 2^32 written on 8 bytes.
LenByte(n, j) ==
    IF j = 0 THEN n % 256
    ELSE IF j = 1 THEN (n \div 256) % 256
    ELSE IF j = 2 THEN (n \div 65536) % 256
    ELSE IF j = 3 THEN (n \div 16777216) % 256
    ELSE 0

\* Byte i of the frame of envelope e, position by position.
FrameByte(e, i) ==
    LET P == Len(e.payload)
        M == Len(e.metadata)
    IN  IF i = 1 THEN 1
        ELSE IF i = 2 THEN e.descriptor
        ELSE IF i <= 10 THEN LenByte(P, i - 3)
        ELSE IF i <= 10 + P THEN e.payload[i - 10]
        ELSE IF i <= 18 + P THEN LenByte(M, i - 11 - P)
        ELSE e.metadata[i - 18 - P]

\* C2 (amended): for a stored envelope send writes exactly: the Option tag
\* byte 1, the descriptor byte, the payload length as 8 little-endian bytes,
\* the payload, the metadata length as 8 little-endian bytes, the metadata;
\* 18 + P + M bytes and nothing else.
C2_BincodeFrame ==
    [][SendsEnvelope =>
         LET e == payload[1]
             n == 18 + Len(e.payload) + Len(e.metadata)
         IN  /\ Len(wire') = Len(wire) + n
             /\ \A i \in 1..n : wire'[Len(wire) + i] = FrameByte(e, i)]_vars

C2_Witness ==
    /\ sendRet = "Ok"
    /\ sent # <<>>
    /\ Last(sent) # None
    /\ Last(sent)[1].payload # <<>>
    /\ Last(sent)[1].metadata # <<>>

\* C3 as stated: no envelope with a payload or metadata of more than 65535
\* bytes is sent successfully.
C3_FieldTooLarge ==
    sendRet = "Ok" =>
        \A i \in 1..Len(sent) :
            sent[i] # None =>
                /\ Len(sent[i][1].payload) <= FieldLimit
                /\ Len(sent[i][1].metadata) <= FieldLimit

\* C3 (amended): over an open stream an envelope is sent successfully
\* whatever the size of its fields, 65535 bytes and more included: the
\* 8-byte length fields carry the full lengths and every byte of payload
\* and metadata is written, nothing truncated.
C3_LargeFieldSent ==
    [][SendsEnvelope =>
         LET e == payload[1]
             P == Len(e.payload)
             M == Len(e.metadata)
             b == Len(wire)
         IN  /\ sendRet' = "Ok"
             /\ Len(wire') = b + 18 + P + M
             /\ wire'[b + 3] + 256 * wire'[b + 4] + 65536 * wire'[b + 5] = P
             /\ \A j \in 6..10 : wire'[b + j] = 0
             /\ SubSeq(wire', b + 11, b + 10 + P) = e.payload
             /\ wire'[b + 11 + P] + 256 * wire'[b + 12 + P]
                    + 65536 * wire'[b + 13 + P] = M
             /\ \A j \in 14..18 : wire'[b + j + P] = 0
             /\ SubSeq(wire', b + 19 + P, b + 18 + P + M) = e.metadata]_vars

C3_Witness ==
    /\ sendRet = "Ok"
    /\ sent # <<>>
    /\ Last(sent) # None
    /\ Len(Last(sent)[1].payload) > FieldLimit
    /\ Len(wire) > FieldLimit

\* C4: encrypt_payload completes, and decrypting the envelope with the same
\* key and nonce then completes and returns the payload from before.
C4_EncryptDecryptInverse ==
    cop = "encrypt_payload" =>
        /\ cret.kind = "Ok"
        /\ plain # None
        /\ DecodeEncryptedPayload(fc, key, nonce).ret = Ok(plain[1])

\* C5: decrypting a payload whose tag does not verify under the given key
\* and nonce returns an error value; it does not panic and returns no
\* plaintext.
C5_AuthenticationFailed ==
    (/\ cop = "decode_encrypted_payload"
     /\ AeadDecrypt(key, nonce, fc.payload).kind = "Err")
    => cret.kind = "Err"

\* C6: a cipher call given a key that is not 32 bytes or a nonce that is
\* not 12 bytes returns an error value.
C6_InvalidKeyMaterial ==
    (/\ cop \in {"encrypt_payload", "decode_encrypted_payload"}
     /\ (Len(key) # 32 \/ Len(nonce) # 12))
    => cret.kind = "Err"

MinFrameLen == 1 + 1 + 8 + 8

\* C8: while the stream is open and has delivered only a proper prefix of
\* the first frame, no read_message has returned.
C8_AllOrNothing ==
    ~ (/\ stream = "open"
       /\ sent # <<>>
       /\ sent[1] # None
       /\ observed # <<>>
       /\ Len(observed[1]) < Len(SerializeOption(sent[1]))
       /\ IsPrefix(observed[1], SerializeOption(sent[1])))

\* C9: once the stream has ended with less than one frame delivered, a
\* read_message that has returned has returned an error value.
C9_ConnectionClosed ==
    (/\ stream = "eof"
     /\ wire = <<>>
     /\ sock = <<>>
     /\ Len(reader) < MinFrameLen
     /\ ret.kind # "none")
    => ret.kind = "Err"

\* The frames of the sends from the j-th on, one after the other.
RECURSIVE FramesFrom(_)
FramesFrom(j) ==
    IF j > Len(sent) THEN <<>>
    ELSE SerializeOption(sent[j]) \o FramesFrom(j + 1)

\* C10: the k-th successful read_message returns the k-th envelope sent,
\* and once it has returned, what is left to read is exactly the frames
\* sent after the k-th.
C10_OncePerFrame ==
    /\ \A k \in 1..Len(received) :
          /\ k <= Len(SentEnvelopes)
          /\ received[k] = SentEnvelopes[k]
    /\ (/\ ret.kind = "Ok"
        /\ stream = "open"
        /\ \A i \in 1..Len(sent) : sent[i] # None)
          => reader \o sock \o wire = FramesFrom(Len(received) + 1)

\* C11: send returns Ok only when the whole frame has gone to the stream,
\* whenever it returns nothing is left in a user-space buffer, and on a
\* stream that fails the write it returns an error.
C11_WrittenAndFlushed ==
    [][send =>
         /\ wbuf' = <<>>
         /\ sendRet' = "Ok" =>
               /\ Len(wire') = Len(wire) + Len(SerializeOption(payload))
               /\ SubSeq(wire', Len(wire) + 1, Len(wire'))
                     = SerializeOption(payload)
         /\ stream # "open" => sendRet' = "Err" /\ wire' = wire]_vars

C11_Witness ==
    /\ sendRet = "Err"
    /\ sent # <<>>
    /\ Last(sent) # None
    /\ wbuf = <<>>

\* C16 as stated: the transport is Connected (stream open) or Disconnected,
\* never becomes Connected again, and send and read_message succeed only
\* while Connected; a stream error ends both.
C16_TwoStates ==
    [][/\ stream # "open" => stream' # "open"
       /\ (send /\ sendRet' = "Ok") => stream = "open"
       /\ (read_message /\ ret'.kind = "Ok") => stream # "reset"]_vars

\* C16 (amended): a CannonLauncher exists only once connect/with_stream has
\* succeeded and its stream, once closed or reset, never becomes open again;
\* send succeeds exactly while the stream is open; read_message is not
\* bound to the stream's state: with bytes in its buffer it returns their
\* decode (or panics on them) also after a close or a reset, and only with
\* nothing buffered or arrived does a reset make it return an io error.
C16_StreamStates ==
    [][/\ stream # "open" => stream' = stream
       /\ send => (sendRet' = "Ok" <=> stream = "open")
       /\ (read_message /\ reader # <<>>) =>
             /\ ret'.kind \in {"Ok", "panic"}
             /\ Last(observed') = reader
       /\ (read_message /\ reader = <<>> /\ sock = <<>> /\ stream = "reset")
             => ret' = Err]_vars

C16_Witness ==
    /\ stream = "reset"
    /\ sendRet = "Err"
    /\ ret.kind = "Ok"
    /\ Len(observed) = 2

\* C17 as stated: after send the transport holds no envelope, and after a
\* successful read_message it holds nothing of the envelope returned.
C17_NoEnvelopeOutlives ==
    [][/\ send => payload' = None
       /\ (read_message /\ ret'.kind = "Ok") => reader' = <<>>]_vars

\* C17 (amended): the envelope stored with set_payload outlives send: send
\* leaves it in the transport and records nothing else, so a second send
\* without another set_payload or clear_payload transmits the same envelope
\* again; after a successful read_message the read buffer still holds the
\* bytes the returned envelope was decoded from.
C17_EnvelopeStays ==
    [][/\ send => payload' = payload
       /\ (send /\ sendRet' = "Ok") => Last(sent') = payload
       /\ (read_message /\ ret'.kind = "Ok") =>
             /\ reader' # <<>>
             /\ DeserializeFCPayload(reader') = ret']_vars

C17_Witness ==
    /\ Len(sent) = 2
    /\ sent[1] # None
    /\ sent[2] = sent[1]
    /\ payload = sent[1]
    /\ ret.kind = "Ok"

\* C18: once a read_message has seen a non-empty buffer, every later
\* read_message sees the same bytes and returns the same envelope,
\* whatever has arrived since.
C18_BufferNeverConsumed ==
    /\ \A i, j \in 1..Len(observed) :
          (i < j /\ observed[i] # <<>>) =>
              /\ observed[j] = observed[i]
              /\ reader = observed[i]
    /\ \A i, j \in 1..Len(received) : received[i] = received[j]
    /\ (Len(observed) > 1 /\ observed[1] # <<>>)
          => Len(received) >= Len(observed) - 1

C18_Witness ==
    /\ Len(observed) = 2
    /\ observed[1] # <<>>
    /\ Len(received) = 2
    /\ sock # <<>>

\* C20: send leaves the stored payload as it is; on an open stream it
\* succeeds also with no payload stored and then writes the single byte 0,
\* where a stored envelope gives a frame that starts with the byte 1.
C20_NoPayloadSend ==
    [][send =>
         /\ payload' = payload
         /\ stream = "open" =>
               /\ sendRet' = "Ok"
               /\ Len(wire') > Len(wire)
               /\ payload = None => wire' = wire \o <<0>>
               /\ payload # None =>
                     /\ wire'[Len(wire) + 1] = 1
                     /\ Len(wire') >= Len(wire) + MinFrameLen]_vars

C20_Witness ==
    /\ sendRet = "Ok"
    /\ Len(sent) = 2
    /\ sent[1] # None
    /\ sent[2] = None
    /\ payload = None
    /\ stream = "open"

(***************************************************************************)
(* The server and client programs (src/src/bin).  They are written against *)
(* a type Protocol that src/src/lib.rs does not define; its receive is     *)
(* taken from the specification: block until one whole frame of the        *)
(* documented layout has arrived, an error value when the stream ends      *)
(* first.                                                                  *)
(***************************************************************************)
\* One whole documented frame is in buf.
CompleteDocumented(buf) ==
    /\ Len(buf) >= 3
    /\ LET P == 256 * buf[2] + buf[3] IN
       /\ Len(buf) >= 5 + P
       /\ LET M == 256 * buf[4 + P] + buf[5 + P] IN
          Len(buf) >= 5 + P + M

\* Protocol::read_message on what has arrived and the state of the stream
ReceiveDocumented(buf, end) ==
    IF end = "reset" THEN "err"
    ELSE IF CompleteDocumented(buf) THEN "ok"
    ELSE IF end = "eof" THEN "err"
    ELSE "blocked"

\* What the client programs send.
ClientEnvelopes == {FCPayload(1, <<7>>, <<>>), FCPayload(0, <<>>, <<0>>)}

\* As MainAfterWorker, the worker's error handed on to main (the call made
\* in the loop itself, followed by ?).
MainAfterWorkerPropagating(result, m) ==
    IF result = "ok" THEN m ELSE "exited"

\* thread::spawn(move || handle_connection(stream).map_err(..)) : the
\* closure's result stays in its thread, main goes on.
MainAfterWorker(result, m) == m

\* As CanAccept, the loop going on only when no worker is running (the
\* worker joined, or run in the loop itself).
CanAcceptAfterWorkers(c) ==
    /\ mainpc = "accept_loop"
    /\ conn[c] = "pending"
    /\ \A d \in Conns : wk[d] \notin {"spawned", "reading"}

\* listener.incoming() : the next connection of the backlog
CanAccept(c) ==
    /\ mainpc = "accept_loop"
    /\ conn[c] = "pending"

\* client.rs main : Protocol::connect(addr) ... .unwrap()
client_connect(c, ok) ==
    /\ cl[c] = "start"
    /\ IF ok
       THEN /\ cl' = [cl EXCEPT ![c] = "connected"]
            /\ conn' = [conn EXCEPT ![c] = "pending"]
       ELSE /\ cl' = [cl EXCEPT ![c] = "panicked"]
            /\ UNCHANGED conn
    /\ UNCHANGED <<mainpc, inbox, peerEnd, wk>>
    /\ UNCHANGED <<transportVars, cipherVars>>

\* client.rs main : client.send_message(&payload)? ... .unwrap(), then the
\* process ends and its socket is closed
client_send(c, e) ==
    /\ cl[c] = "connected"
    /\ IF peerEnd[c] = "open"
       THEN /\ inbox' = [inbox EXCEPT ![c] = DocumentedFrame(e)]
            /\ peerEnd' = [peerEnd EXCEPT ![c] = "eof"]
            /\ cl' = [cl EXCEPT ![c] = "exited"]
       ELSE /\ cl' = [cl EXCEPT ![c] = "panicked"]
            /\ UNCHANGED <<inbox, peerEnd>>
    /\ UNCHANGED <<mainpc, conn, wk>>
    /\ UNCHANGED <<transportVars, cipherVars>>

\* The client process is killed after k bytes of its frame have gone out.
client_killed(c, e, k) ==
    /\ cl[c] = "connected"
    /\ peerEnd[c] = "open"
    /\ k < Len(DocumentedFrame(e))
    /\ inbox' = [inbox EXCEPT ![c] = SubSeq(DocumentedFrame(e), 1, k)]
    /\ peerEnd' = [peerEnd EXCEPT ![c] = "eof"]
    /\ cl' = [cl EXCEPT ![c] = "killed"]
    /\ UNCHANGED <<mainpc, conn, wk>>
    /\ UNCHANGED <<transportVars, cipherVars>>

\* The connection is reset under both ends.
net_reset(c) ==
    /\ conn[c] \in {"pending", "accepted"}
    /\ peerEnd[c] = "open"
    /\ peerEnd' = [peerEnd EXCEPT ![c] = "reset"]
    /\ inbox' = [inbox EXCEPT ![c] = <<>>]
    /\ UNCHANGED <<mainpc, conn, wk, cl>>
    /\ UNCHANGED <<transportVars, cipherVars>>

\* server.rs main : for stream in listener.incoming().flatten() { spawn }
accept(c) ==
    /\ CanAccept(c)
    /\ conn' = [conn EXCEPT ![c] = "accepted"]
    /\ wk' = [wk EXCEPT ![c] = "spawned"]
    /\ UNCHANGED <<mainpc, inbox, peerEnd, cl>>
    /\ UNCHANGED <<transportVars, cipherVars>>

\* incoming() yields Err for a connection that was reset in the backlog;
\* flatten() drops it and the loop goes on.
accept_error(c) ==
    /\ mainpc = "accept_loop"
    /\ conn[c] = "pending"
    /\ peerEnd[c] = "reset"
    /\ conn' = [conn EXCEPT ![c] = "aborted"]
    /\ UNCHANGED <<mainpc, inbox, peerEnd, wk, cl>>
    /\ UNCHANGED <<transportVars, cipherVars>>

\* handle_connection : Protocol::with_stream(stream)?
worker_with_stream(c, ok) ==
    /\ wk[c] = "spawned"
    /\ wk' = [wk EXCEPT ![c] = IF ok THEN "reading" ELSE "err_io"]
    /\ mainpc' = IF ok THEN mainpc ELSE MainAfterWorker("err", mainpc)
    /\ UNCHANGED <<conn, inbox, peerEnd, cl>>
    /\ UNCHANGED <<transportVars, cipherVars>>

\* handle_connection : protocol.read_message()?; Ok(())
worker_read(c) ==
    /\ wk[c] = "reading"
    /\ LET r == ReceiveDocumented(inbox[c], peerEnd[c]) IN
       /\ r # "blocked"
       /\ wk' = [wk EXCEPT ![c] = IF r = "ok" THEN "ok" ELSE "err_recv"]
       /\ mainpc' = MainAfterWorker(r, mainpc)
    /\ UNCHANGED <<conn, inbox, peerEnd, cl>>
    /\ UNCHANGED <<transportVars, cipherVars>>

InitServer == InitTransport /\ InitCipherIdle /\ InitListener

NextListener ==
    \/ \E c \in Conns, ok \in BOOLEAN : client_connect(c, ok)
    \/ \E c \in Conns, e \in ClientEnvelopes : client_send(c, e)
    \/ \E c \in Conns, e \in ClientEnvelopes, k \in 0..MaxPartial :
          client_killed(c, e, k)
    \/ \E c \in Conns : net_reset(c)
    \/ \E c \in Conns : accept(c)
    \/ \E c \in Conns : accept_error(c)
    \/ \E c \in Conns, ok \in BOOLEAN : worker_with_stream(c, ok)
    \/ \E c \in Conns : worker_read(c)

SpecListener == InitServer /\ [][NextListener]_vars

\* The main thread runs whenever it can: a connection waiting in the
\* backlog is taken by the accept loop as soon as the loop is at accept.
SpecListenerFair ==
    /\ InitServer
    /\ [][NextListener]_vars
    /\ \A c \in Conns : WF_vars(accept(c) \/ accept_error(c))

(***************************************************************************)
(* The listener and the programs.                                          *)
(***************************************************************************)
\* The steps of connection c's worker thread.
WorkerStep(c) ==
    \/ \E ok \in BOOLEAN : worker_with_stream(c, ok)
    \/ worker_read(c)

C13_AcceptNeverWaits ==
    \A c \in Conns :
       (conn[c] = "pending") ~> (wk[c] # "none" \/ conn[c] = "aborted")

\* A worker is blocked on a silent peer and another connection has been
\* handed to its own worker.
C13_Witness ==
    \E c \in Conns, d \in Conns :
       /\ c # d
       /\ wk[c] = "reading" /\ inbox[c] = <<>> /\ peerEnd[c] = "open"
       /\ wk[d] # "none"

\* C14: no failure of connect, send or receive ends a process: no client
\* process panics and the server's main thread stays in its accept loop.
C14_NoFatalError ==
    /\ mainpc = "accept_loop"
    /\ \A c \in Conns : cl[c] # "panicked"

\* C15: an envelope with descriptor 1 and empty metadata, encrypted with a
\* key and nonce, sent and received, still has descriptor 1 and empty
\* metadata, and decrypting it with the same key and nonce gives the
\* plaintext that was encrypted.
C15_EndToEnd ==
    [][\A k \in Keys, n \in Nonces :
          (encrypt_payload(k, n) /\ fc.descriptor = 1 /\ fc.metadata = <<>>)
          => /\ cret'.kind = "Ok"
             /\ LET rd == DeserializeFCPayload(SerializeOption(Some(fc'))) IN
                /\ rd.kind = "Ok"
                /\ rd.val[1].descriptor = 1
                /\ rd.val[1].metadata = <<>>
                /\ DecodeEncryptedPayload(rd.val[1], k, n).ret
                      = Ok(fc.payload)]_vars

\* C19: in a debug build the self-check of encrypt_payload holds for every
\* payload, key and nonce: after encrypt_payload, decrypting the stored
\* payload with the same key and nonce gives a value equal to the stored
\* payload, and encrypt_payload has returned normally.
C19_SelfCheckHolds ==
    (cop = "encrypt_payload" /\ debug)
    => /\ cret.kind = "Ok"
       /\ AeadDecrypt(key, nonce, fc.payload) = Ok(fc.payload)

====
